---- MODULE Spec2Model ----
(***************************************************************************)
(* Path movers of opentis (src/opentis/pathmover.py): the base PathMover   *)
(* (legal_sample_set, select_sample), make_list_of_pairs, the shooting     *)
(* movers and the composite movers, as one state machine; and              *)
(* ChannelAnalysis of src/openpathsampling/analysis/channel_analysis.py.   *)
(*                                                                         *)
(* Python values are encoded as records of one shape per kind, so that a   *)
(* test such as `type(x) is list` or `x == 'all'` is a test of a field.    *)
(* An exception that leaves a function is the field `raised` of its        *)
(* outcome, named as Python names it ("" when the function returned).      *)
(*                                                                         *)
(* Abstractions: a list of samples whose order the code never reads        *)
(* (legal_sample_set) is a set; a uniform draw of [0, 1) is k / RandSteps; *)
(* sum_bias and the weights are integers and quotients are compared        *)
(* exactly, so the rounding of floats is not modelled. Trajectory,         *)
(* Ensemble, Sample, SampleSet, the engine and the shooting point selector *)
(* are collaborators from outside pathmover.py.                            *)
(***************************************************************************)
EXTENDS Integers, Sequences, FiniteSets, TLC

VARIABLES globalstate, mover, pc, call, subglobal, mysamples, invoked, analysis

vars == <<globalstate, mover, pc, call, subglobal, mysamples, invoked, analysis>>

(***************************************************************************)
(* Bounds of the model.                                                    *)
(***************************************************************************)
MaxLen == 2

\* the replica ids of the simulation
Replicas == {0, 1}

(***************************************************************************)
(* Collaborators: snapshots, trajectories, ensembles.                      *)
(***************************************************************************)
Snapshots == {"A", "B"}

TrajectoriesUpTo(n) == UNION {[1..k -> Snapshots] : k \in 1..n}

Trajectories == TrajectoriesUpTo(MaxLen)

Ensembles == {"EnsA", "EnsAB"}

\* ensemble(trajectory): the membership test of an ensemble. EnsA holds the
\* paths that start in A, EnsAB those that start in A and end in B.
InEnsemble(ens, traj) ==
  /\ Len(traj) > 0
  /\ CASE ens = "EnsA" -> traj[1] = "A"
       [] ens = "EnsAB" -> traj[1] = "A" /\ traj[Len(traj)] = "B"
       [] OTHER -> FALSE

\* trajectory.reversed()
RECURSIVE Reversed(_)
Reversed(t) == IF t = <<>> THEN <<>> ELSE Append(Reversed(Tail(t)), Head(t))

\* l[i:j] of Python, 0-based, j exclusive
Slice(l, i, j) == SubSeq(l, i + 1, j)

Range(s) == {s[i] : i \in DOMAIN s}

(***************************************************************************)
(* Sample and SampleSet.                                                   *)
(***************************************************************************)
\* Sample(replica, trajectory, ensemble) as a sample set holds it
Sample(rep, traj, ens) == [replica |-> rep, trajectory |-> traj, ensemble |-> ens]

\* what one replica can hold: a trajectory and an ensemble it satisfies
ActivePairs == {p \in Trajectories \X Ensembles : InEnsemble(p[2], p[1])}

\* the sample sets a simulation can hold: at most one active sample per
\* replica, each trajectory in its ensemble
SampleSets ==
  UNION {{{Sample(r, f[r][1], f[r][2]) : r \in D} : f \in [D -> ActivePairs]}
           : D \in SUBSET Replicas}

replica_list(state) == {s.replica : s \in state}

all_from_replica(state, rep) == {s \in state : s.replica = rep}

all_from_ensemble(state, ens) == {s \in state : s.ensemble = ens}

\* SampleSet.apply_samples: the new samples replace those of the same replica
apply_samples(state, samples) ==
  LET new == {Sample(samples[i].replica, samples[i].trajectory, samples[i].ensemble) :
                i \in {j \in DOMAIN samples :
                         \A k \in DOMAIN samples :
                           samples[k].replica = samples[j].replica => k <= j}}
  IN  {s \in state : s.replica \notin {n.replica : n \in new}} \cup new

(***************************************************************************)
(* PathMover.__init__ : the arguments and what the constructor keeps.      *)
(***************************************************************************)
\* replicas: 'all', an int, or a list of ints
RepAll == [kind |-> "str", n |-> 0, list |-> <<>>]
RepInt(n) == [kind |-> "int", n |-> n, list |-> <<>>]
RepList(l) == [kind |-> "list", n |-> 0, list |-> l]

\* ensembles: None, one object (an ensemble, or the string 'all'), or a list
EnsNone == [kind |-> "None", one |-> "", list |-> <<>>]
EnsOne(e) == [kind |-> "one", one |-> e, list |-> <<>>]
EnsList(l) == [kind |-> "list", one |-> "", list |-> l]

ReplicasArgs ==
  {RepAll} \cup {RepInt(r) : r \in Replicas} \cup {RepList(<<r>>) : r \in Replicas}
    \cup {RepList(<<0, 1>>)}

EnsemblesArgs ==
  {EnsNone, EnsOne("all")} \cup {EnsOne(e) : e \in Ensembles}
    \cup {EnsList(<<e>>) : e \in Ensembles} \cup {EnsList(<<"EnsA", "EnsAB">>)}

PathMover__init__(replicas, ensembles) ==
  [replicas  |-> IF replicas.kind = "int" THEN RepList(<<replicas.n>>) ELSE replicas,
   ensembles |-> IF ensembles.kind # "None" /\ ensembles.kind # "list"
                 THEN EnsList(<<ensembles.one>>)
                 ELSE ensembles,
   args      |-> [replicas |-> replicas, ensembles |-> ensembles]]

Movers == {PathMover__init__(r, e) : r \in ReplicasArgs, e \in EnsemblesArgs}

(***************************************************************************)
(* PathMover.legal_sample_set and select_sample.                           *)
(***************************************************************************)
legal_sample_set(self, state, ensembles) ==
  LET reps == IF self.replicas.kind = "str" /\ self.replicas = RepAll
              THEN replica_list(state)
              ELSE Range(self.replicas.list)
      rep_samples == UNION {all_from_replica(state, rep) : rep \in reps}
      ens1 == IF ensembles.kind = "None"
              THEN IF self.ensembles.kind = "None" THEN EnsOne("all") ELSE self.ensembles
              ELSE ensembles
  IN  IF ens1.kind = "one" /\ ens1.one = "all"
      THEN rep_samples
      ELSE LET ens2 == IF ens1.kind # "list" THEN EnsList(<<ens1.one>>) ELSE ens1
               ens_samples == UNION {all_from_ensemble(state, ens) : ens \in Range(ens2.list)}
           IN  rep_samples \cap ens_samples

\* random.choice(legal): any element, and IndexError on an empty sequence
select_sample(self, state, ensembles) ==
  LET legal == legal_sample_set(self, state, ensembles)
  IN  IF legal = {}
      THEN {[raised |-> "IndexError", sample |-> Sample(0, <<>>, "")]}
      ELSE {[raised |-> "", sample |-> s] : s \in legal}

(***************************************************************************)
(* The state machine. A call starts at pc = "idle" and ends at             *)
(* pc = "returned" with what it returned or raised in `call`; the driver   *)
(* that merges the returned samples into the next state is outside.        *)
(***************************************************************************)
NoCall == [op |-> "none"]

\* no ChannelAnalysis object has been built
NoAnalysis == [class |-> "none"]

Init ==
  /\ globalstate \in SampleSets
  /\ mover \in Movers
  /\ pc = "idle"
  /\ call = NoCall
  /\ subglobal = {}
  /\ mysamples = <<>>
  /\ invoked = <<>>
  /\ analysis = NoAnalysis

\* a direct call of legal_sample_set(globalstate, ensembles)
LegalSampleSet ==
  /\ pc = "idle"
  /\ \E ensembles \in EnsemblesArgs :
       call' = [op |-> "legal_sample_set", ensembles |-> ensembles,
                result |-> legal_sample_set(mover, globalstate, ensembles)]
  /\ pc' = "returned"
  /\ UNCHANGED <<globalstate, mover, subglobal, mysamples, invoked, analysis>>

\* a direct call of select_sample(globalstate, ensembles)
SelectSample ==
  /\ pc = "idle"
  /\ \E ensembles \in EnsemblesArgs :
       \E r \in select_sample(mover, globalstate, ensembles) :
         call' = [op |-> "select_sample", ensembles |-> ensembles,
                  legal |-> legal_sample_set(mover, globalstate, ensembles),
                  raised |-> r.raised, sample |-> r.sample]
  /\ pc' = "returned"
  /\ UNCHANGED <<globalstate, mover, subglobal, mysamples, invoked, analysis>>

NextLegal == LegalSampleSet \/ SelectSample

SpecLegal == Init /\ [][NextLegal]_vars

(***************************************************************************)
(* legal_sample_set and select_sample against their contract.              *)
(***************************************************************************)
\* what the mover was constructed to select: the samples of its replicas
\* ('all': any) in the given ensembles (omitted: the mover's own; those unset
\* or 'all': any)
LegalByContract(self, state, ensembles) ==
  LET eff == IF ensembles.kind = "None" THEN self.args.ensembles ELSE ensembles
      repOk(s) == \/ self.args.replicas.kind = "str"
                  \/ self.args.replicas.kind = "int" /\ s.replica = self.args.replicas.n
                  \/ self.args.replicas.kind = "list"
                       /\ s.replica \in Range(self.args.replicas.list)
      ensOk(s) == \/ eff.kind = "None"
                  \/ eff.kind = "one" /\ (eff.one = "all" \/ s.ensemble = eff.one)
                  \/ eff.kind = "list" /\ s.ensemble \in Range(eff.list)
  IN  {s \in state : repOk(s) /\ ensOk(s)}

\* C4: legal_sample_set returns exactly the samples of the state in the mover's
\* replicas and in the given ensembles, 'all' honoured on each axis, also when
\* 'all' was the mover's ensembles at construction.
C4_LegalSampleSetContract ==
  call.op = "legal_sample_set" =>
    call.result = LegalByContract(mover, globalstate, call.ensembles)

\* C5: with an empty legal sample set select_sample ends in an explicit
\* EmptySelectionError and returns no sample.
C5_EmptySelectionIsExplicit ==
  (call.op = "select_sample" /\ call.legal = {}) =>
    call.raised = "EmptySelectionError"

(***************************************************************************)
(* make_list_of_pairs and EnsembleHopMover.__init__.                       *)
(***************************************************************************)
MaxListLen == 3

\* a Python value in a list given as `ensembles`: an ensemble object, or a list
Atom(a) == [isList |-> FALSE, atom |-> a, items |-> <<>>]
Lst(items) == [isList |-> TRUE, atom |-> "", items |-> items]

PyNone == [kind |-> "None", items |-> <<>>]
PyList(items) == [kind |-> "list", items |-> items]

Returned(v) == [raised |-> "", value |-> v]
Raised(e) == [raised |-> e, value |-> PyNone]

\* the index of the first element of l that makes the loop of line 47 raise,
\* 0 when none does
FirstBadElem(l) ==
  LET bad == {i \in DOMAIN l : ~l[i].isList \/ Len(l[i].items) # 2}
  IN  IF bad = {} THEN 0 ELSE CHOOSE i \in bad : \A j \in bad : i <= j

make_list_of_pairs(l) ==
  IF l.kind = "None" THEN Returned(PyNone)
  ELSE LET items == l.items
           len_l == Len(items)
       IN  IF len_l = 0 THEN Raised("IndexError")          \* l[0] of line 41
           ELSE IF items[1].isList                          \* list_of_lists
           THEN LET i == FirstBadElem(items)
                IN  IF i = 0 THEN Returned(l)
                    ELSE IF ~items[i].isList THEN Raised("TypeError")  \* len(elem)
                    ELSE Raised("AssertionError")
           ELSE IF len_l % 2 # 0 THEN Raised("AssertionError")
           ELSE Returned(PyList([i \in 1..(len_l \div 2) |->
                                   Lst(<<items[2 * i - 1], items[2 * i]>>)]))

\* EnsembleHopMover.__init__(ensembles=...): the mover, or the exception that
\* leaves the constructor
EnsembleHopMover__init__(ensembles) ==
  LET pairs == make_list_of_pairs(ensembles)
  IN  IF pairs.raised # "" THEN [raised |-> pairs.raised, ensembles |-> PyNone]
      ELSE [raised |-> "", ensembles |-> pairs.value]

PairAtoms == {Atom(e) : e \in Ensembles}

PairInnerLists ==
  {Lst(<<Atom("EnsA")>>), Lst(<<Atom("EnsA"), Atom("EnsAB")>>),
   Lst(<<Atom("EnsAB"), Atom("EnsA")>>),
   Lst(<<Atom("EnsA"), Atom("EnsAB"), Atom("EnsA")>>)}

PairElems == PairAtoms \cup PairInnerLists

PairInputs ==
  {PyNone} \cup {PyList(s) : s \in UNION {[1..k -> PairElems] : k \in 0..MaxListLen}}

IsFlat(l) == l.kind = "list" /\ \A i \in DOMAIN l.items : ~l.items[i].isList

IsListOfPairs(l) ==
  l.kind = "list" /\ \A i \in DOMAIN l.items :
                       l.items[i].isList /\ Len(l.items[i].items) = 2

WellFormed(l) ==
  l.kind = "None" \/ IsListOfPairs(l) \/ (IsFlat(l) /\ Len(l.items) % 2 = 0)

InitPairs ==
  /\ globalstate = {}
  /\ mover = PathMover__init__(RepAll, EnsNone)
  /\ pc = "idle"
  /\ call = NoCall
  /\ subglobal = {}
  /\ mysamples = <<>>
  /\ invoked = <<>>
  /\ analysis = NoAnalysis

\* make_list_of_pairs(l), and make_list_of_pairs of what it returned
MakeListOfPairs ==
  /\ pc = "idle"
  /\ \E l \in PairInputs :
       LET once == make_list_of_pairs(l)
       IN  call' = [op |-> "make_list_of_pairs", l |-> l, out |-> once,
                    twice |-> IF once.raised = "" THEN make_list_of_pairs(once.value)
                              ELSE once]
  /\ pc' = "returned"
  /\ UNCHANGED <<globalstate, mover, subglobal, mysamples, invoked, analysis>>

\* EnsembleHopMover(ensembles=l)
ConstructEnsembleHopMover ==
  /\ pc = "idle"
  /\ \E l \in PairInputs :
       call' = [op |-> "EnsembleHopMover", l |-> l, hop |-> EnsembleHopMover__init__(l)]
  /\ pc' = "returned"
  /\ UNCHANGED <<globalstate, mover, subglobal, mysamples, invoked, analysis>>

NextPairs == MakeListOfPairs \/ ConstructEnsembleHopMover

SpecPairs == InitPairs /\ [][NextPairs]_vars

\* C6: a flat list of even length 2N becomes the N pairs [l[2i], l[2i+1]] in
\* order, a list of pairs and None are returned unchanged, and a second
\* application changes nothing.
C6_MakeListOfPairsContract ==
  (call.op = "make_list_of_pairs" /\ WellFormed(call.l)) =>
    /\ call.out.raised = ""
    /\ call.l.kind = "None" => call.out.value = PyNone
    /\ IsListOfPairs(call.l) => call.out.value = call.l
    /\ (IsFlat(call.l) /\ Len(call.l.items) % 2 = 0) =>
         /\ call.out.value.kind = "list"
         /\ Len(call.out.value.items) = Len(call.l.items) \div 2
         /\ \A i \in 1..(Len(call.l.items) \div 2) :
              call.out.value.items[i] = Lst(<<call.l.items[2 * i - 1], call.l.items[2 * i]>>)
    /\ call.twice = call.out

\* C7: every malformed pair list is rejected with the configuration error when
\* the EnsembleHopMover is constructed; no mover holding one is created.
C7_MalformedRejectedAtConstruction ==
  (call.op = "EnsembleHopMover" /\ ~WellFormed(call.l)) =>
    call.hop.raised = "AssertionError"

(***************************************************************************)
(* ShootMover.move with ForwardShootMover / BackwardShootMover._generate.  *)
(***************************************************************************)
MaxBias == 2
RandSteps == 4

\* sum_bias of a shooting point, as the selector computes it
Biases == 1..MaxBias

\* np.random.random(): the uniform numbers k / RandSteps of [0, 1)
RandomDraws == 0..(RandSteps - 1)

\* ShootingPoint(selector, trajectory, index)
ShootingPoint(traj, index, bias) ==
  [index |-> index, sum_bias |-> bias,
   snapshot |-> IF index + 1 \in DOMAIN traj THEN traj[index + 1] ELSE "None"]

\* engine.generate(snapshot, running): a segment that starts at the snapshot
EngineGenerate(snapshot) == {t \in Trajectories : t[1] = snapshot}

\* ForwardShootMover._generate: (trial, index of final_point)
ForwardGenerate(start, start_point, partial_trajectory) ==
  [trial |-> Slice(start, 0, start_point.index) \o partial_trajectory,
   final_index |-> start_point.index]

\* line 396 with start[index:] for start[index + 1:]: the shooting frame is
\* kept twice
BackwardGenerateKeepsShootingFrame(start, start_point, partial_trajectory) ==
  [trial |-> Reversed(partial_trajectory)
               \o Slice(start, start_point.index, Len(start)),
   final_index |-> Len(partial_trajectory) - 1]

\* BackwardShootMover._generate
BackwardGenerate(start, start_point, partial_trajectory) ==
  [trial |-> Reversed(partial_trajectory)
               \o Slice(start, start_point.index + 1, Len(start)),
   final_index |-> Len(partial_trajectory) - 1]

\* ShootMover.selection_probability_ratio: start_point.sum_bias /
\* final_point.sum_bias, kept as the fraction
selection_probability_ratio(details) ==
  [num |-> details.start_point.sum_bias, den |-> details.final_point.sum_bias]

\* rand < ratio for rand = k / RandSteps
RandBelowRatioOrEqual(k, ratio) == k * ratio.den <= ratio.num * RandSteps

RandBelowRatio(k, ratio) == k * ratio.den < ratio.num * RandSteps

\* lines 317-325: the acceptance decision of a trial
ShootAcceptsWithoutEnsembleTest(details, k) ==
  RandBelowRatio(k, selection_probability_ratio(details))

ShootAccepts(details, k) ==
  /\ details.trial_is_in_ensemble
  /\ RandBelowRatio(k, selection_probability_ratio(details))

\* ShootMover.move(globalstate): every outcome of one call, the exception of
\* select_sample or the Sample returned
ShootMoves(self, state, direction) ==
  UNION {
    IF sel.raised # ""
    THEN {[raised |-> sel.raised]}
    ELSE LET trajectory == sel.sample.trajectory
             dynamics_ensemble == sel.sample.ensemble
             replica == sel.sample.replica
         IN  UNION {
               LET start_point == ShootingPoint(trajectory, index, sb)
               IN  { LET gen == IF direction = "forward"
                                THEN ForwardGenerate(trajectory, start_point, partial)
                                ELSE BackwardGenerate(trajectory, start_point, partial)
                         d0 == [inputs |-> <<trajectory>>,
                                start |-> trajectory,
                                start_point |-> start_point,
                                trial |-> gen.trial,
                                final_point |-> ShootingPoint(gen.trial, gen.final_index, fb),
                                trial_is_in_ensemble |->
                                  InEnsemble(dynamics_ensemble, gen.trial),
                                acceptance_probability |-> "None"]
                         accepted == ShootAccepts(d0, k)
                         result == IF accepted THEN d0.trial ELSE d0.start
                     IN  [raised |-> "",
                          selected |-> sel.sample,
                          partial_trajectory |-> partial,
                          draws |-> IF d0.trial_is_in_ensemble THEN <<k>> ELSE <<>>,
                          replica |-> replica,
                          trajectory |-> result,
                          ensemble |-> dynamics_ensemble,
                          details |-> [accepted |-> accepted, result |-> result,
                                       d |-> d0]]
                     : partial \in EngineGenerate(start_point.snapshot),
                       fb \in Biases,
                       k \in RandomDraws }
               : index \in 0..(Len(trajectory) - 1), sb \in Biases }
    : sel \in select_sample(self, state, self.ensembles) }

\* the movers the simulation is run with
MoveMovers ==
  {PathMover__init__(RepAll, EnsNone), PathMover__init__(RepInt(0), EnsOne("EnsAB"))}

InitMoves ==
  /\ globalstate \in SampleSets
  /\ mover \in MoveMovers
  /\ pc = "idle"
  /\ call = NoCall
  /\ subglobal = {}
  /\ mysamples = <<>>
  /\ invoked = <<>>
  /\ analysis = NoAnalysis

\* what a call hands back: nothing when it raised, else the kind of object
\* its return statement names ("Sample", "list" or "None")
ReturnKind(out, kind) == IF out.raised # "" THEN "nothing" ELSE kind

\* ForwardShootMover.move / BackwardShootMover.move; line 332 returns the
\* Sample itself
ShootMove ==
  /\ pc = "idle"
  /\ \E direction \in {"forward", "backward"} :
       \E out \in ShootMoves(mover, globalstate, direction) :
         call' = [op |-> "ShootMover", direction |-> direction, out |-> out,
                  returns |-> ReturnKind(out, "Sample")]
  /\ pc' = "returned"
  /\ UNCHANGED <<globalstate, mover, subglobal, mysamples, invoked, analysis>>

(***************************************************************************)
(* PathReversalMover.move, the leaf mover a MixedMover is built over here. *)
(***************************************************************************)
\* lines 611-612 with details.result = trajectory: the reversal is thrown away
PathReversalKeepsTrajectory(self, state) ==
  { IF sel.raised # ""
    THEN [raised |-> sel.raised]
    ELSE LET trajectory == sel.sample.trajectory
             ensemble == sel.sample.ensemble
             reversed_trajectory == Reversed(trajectory)
             accepted == InEnsemble(ensemble, reversed_trajectory)
             result == trajectory
         IN  [raised |-> "",
              selected |-> sel.sample,
              replica |-> sel.sample.replica,
              trajectory |-> result,
              ensemble |-> ensemble,
              details |-> [inputs |-> <<trajectory>>,
                           trial |-> reversed_trajectory,
                           accepted |-> accepted,
                           acceptance_probability |-> IF accepted THEN 1 ELSE 0,
                           result |-> result]]
    : sel \in select_sample(self, state, self.ensembles) }

PathReversalMoves(self, state) ==
  { IF sel.raised # ""
    THEN [raised |-> sel.raised]
    ELSE LET trajectory == sel.sample.trajectory
             ensemble == sel.sample.ensemble
             reversed_trajectory == Reversed(trajectory)
             accepted == InEnsemble(ensemble, reversed_trajectory)
             result == IF accepted THEN reversed_trajectory ELSE trajectory
         IN  [raised |-> "",
              selected |-> sel.sample,
              replica |-> sel.sample.replica,
              trajectory |-> result,
              ensemble |-> ensemble,
              details |-> [inputs |-> <<trajectory>>,
                           trial |-> reversed_trajectory,
                           accepted |-> accepted,
                           acceptance_probability |-> IF accepted THEN 1 ELSE 0,
                           result |-> result]]
    : sel \in select_sample(self, state, self.ensembles) }

\* PathReversalMover.move(globalstate)
PathReversalMove ==
  /\ pc = "idle"
  /\ \E out \in PathReversalMoves(mover, globalstate) :
       call' = [op |-> "PathReversalMover", out |-> out,
                returns |-> ReturnKind(out, "Sample")]
  /\ pc' = "returned"
  /\ UNCHANGED <<globalstate, mover, subglobal, mysamples, invoked, analysis>>

\* Sample sets whose trajectories are long enough for a trajectory and its
\* reversal to differ and both lie in one ensemble.
MaxRevLen == 4

LongActivePairs ==
  {p \in TrajectoriesUpTo(MaxRevLen) \X Ensembles : InEnsemble(p[2], p[1])}

LongSampleSets ==
  UNION {{{Sample(r, f[r][1], f[r][2]) : r \in D} : f \in [D -> LongActivePairs]}
           : D \in SUBSET Replicas}

InitReversal ==
  /\ globalstate \in LongSampleSets
  /\ mover \in MoveMovers
  /\ pc = "idle"
  /\ call = NoCall
  /\ subglobal = {}
  /\ mysamples = <<>>
  /\ invoked = <<>>
  /\ analysis = NoAnalysis

NextReversal == PathReversalMove

SpecReversal == InitReversal /\ [][NextReversal]_vars

(***************************************************************************)
(* MixedMover.move.                                                        *)
(***************************************************************************)
MaxMovers == 3
MaxWeight == 1

WeightLists == UNION {[1..n -> 0..MaxWeight] : n \in 1..MaxMovers}

RECURSIVE SumSeq(_)
SumSeq(w) == IF w = <<>> THEN 0 ELSE Head(w) + SumSeq(Tail(w))

\* prob <= rand of line 425, for rand = (k / RandSteps) * sum(weights)
ProbBelowRand(prob, k, total) == prob * RandSteps < k * total

ProbNotAboveRand(prob, k, total) == prob * RandSteps <= k * total

\* the loop of lines 423-427 from (idx, prob); idx is 0-based as in the code,
\* and weights[idx] past the end raises IndexError
RECURSIVE MixedSelectFrom(_, _, _, _)
MixedSelectFrom(weights, k, idx, prob) ==
  IF ProbNotAboveRand(prob, k, SumSeq(weights)) /\ idx < Len(weights)
  THEN IF idx + 1 >= Len(weights)
       THEN [raised |-> "IndexError", idx |-> idx + 1]
       ELSE MixedSelectFrom(weights, k, idx + 1, prob + weights[idx + 2])
  ELSE [raised |-> "", idx |-> idx]

\* the loop of lines 423-427 left out: idx stays 0
MixedSelectFirst(weights, k) == [raised |-> "", idx |-> 0]

MixedSelect(weights, k) == MixedSelectFrom(weights, k, 0, weights[1])

\* MixedMover(movers, weights).move(state): movers[i] is a PathReversalMover
\* with the restrictions of `self`; `invoked` lists the sub-movers run
MixedMoves(self, weights, state) ==
  UNION {
    LET sel == MixedSelect(weights, k)
    IN  IF sel.raised # ""
        THEN {[raised |-> sel.raised, weights |-> weights, draw |-> k,
               invoked |-> <<>>]}
        ELSE { IF sub.raised # ""
               THEN [raised |-> sub.raised, weights |-> weights, draw |-> k,
                     invoked |-> <<sel.idx>>]
               ELSE [raised |-> "", weights |-> weights, draw |-> k,
                     invoked |-> <<sel.idx>>,
                     submove |-> sub,
                     replica |-> sub.replica,
                     trajectory |-> sub.trajectory,
                     ensemble |-> sub.ensemble,
                     details |-> [mover_idx |-> sel.idx, d |-> sub.details]]
               : sub \in PathReversalMoves(self, state) }
    : k \in RandomDraws }

MixedMove ==
  /\ pc = "idle"
  /\ \E weights \in WeightLists :
       \E out \in MixedMoves(mover, weights, globalstate) :
         call' = [op |-> "MixedMover", out |-> out,
                  returns |-> ReturnKind(out, "Sample")]
  /\ pc' = "returned"
  /\ UNCHANGED <<globalstate, mover, subglobal, mysamples, invoked, analysis>>

\* C8: with a positive sum of weights MixedMover.move never runs a sub-mover
\* of weight 0, whatever the draw; with weights [1,0,0] it runs sub-mover 0.
C8_ZeroWeightNeverInvoked ==
  (call.op = "MixedMover" /\ SumSeq(call.out.weights) > 0) =>
    /\ call.out.invoked # <<>>
    /\ \A i \in DOMAIN call.out.invoked :
         call.out.weights[call.out.invoked[i] + 1] > 0
    /\ call.out.weights = <<1, 0, 0>> => call.out.invoked = <<0>>

C8_Witness ==
  /\ call.op = "MixedMover"
  /\ call.out.weights = <<0, 1, 0>>
  /\ call.out.draw = 0
  /\ call.out.invoked = <<1>>
  /\ call.out.raised = ""


(***************************************************************************)
(* Sub-movers of the sequential movers: movers that keep the contract      *)
(* move(state) -> list of Sample. Sub-mover i works on replica i mod 2 of  *)
(* the state it is given: it returns the reversed trajectory as accepted   *)
(* or the trajectory it found as rejected, and [] when the replica has no  *)
(* sample.                                                                 *)
(***************************************************************************)
SubMoverMoves(i, state) ==
  LET found == all_from_replica(state, i % 2)
  IN  IF found = {} THEN {<<>>}
      ELSE {<<[replica |-> s.replica,
               trajectory |-> IF acc THEN Reversed(s.trajectory) ELSE s.trajectory,
               ensemble |-> s.ensemble,
               details |-> [accepted |-> acc, mover |-> i]]>>
             : s \in found, acc \in BOOLEAN}

\* an element of a list of samples: the Sample itself, or, after
\* extend(sample), one of the items the iteration of a Sample yields
Item(sample) == [field |-> "", sample |-> sample]
FieldItem(name, sample) == [field |-> name, sample |-> sample]

\* list.extend(samples) for a list of samples
ExtendWithList(list, samples) == list \o [i \in DOMAIN samples |-> Item(samples[i])]

\* SampleSet(samples): a new sample set holding the samples
NewSampleSet(samples) == samples

(***************************************************************************)
(* IndependentSequentialMover.move.                                        *)
(***************************************************************************)
\* line 461 with the wrong target: subglobal were the caller's own object
ISeqApplyToGlobalState(state, sub, newsamples) ==
  [globalstate |-> apply_samples(state, newsamples), subglobal |-> sub]

\* line 461: subglobal.apply_samples(newsamples); the caller's state is not
\* touched
ISeqApply(state, sub, newsamples) ==
  [globalstate |-> state, subglobal |-> apply_samples(sub, newsamples)]

ISeqStart ==
  /\ pc = "idle"
  /\ \E n \in 1..MaxMovers :
       call' = [op |-> "IndependentSequentialMover", n |-> n, idx |-> 0]
  /\ pc' = "IndependentSequentialMover"
  /\ subglobal' = NewSampleSet(legal_sample_set(mover, globalstate, EnsNone))
  /\ mysamples' = <<>>
  /\ invoked' = <<>>
  /\ UNCHANGED <<globalstate, mover, analysis>>

\* one turn of the loop of lines 459-462
ISeqStep ==
  /\ pc = "IndependentSequentialMover"
  /\ call.idx < call.n
  /\ \E newsamples \in SubMoverMoves(call.idx, subglobal) :
       LET after == ISeqApply(globalstate, subglobal, newsamples)
       IN  \E again \in SubMoverMoves(call.idx, after.subglobal) :
             /\ globalstate' = after.globalstate
             /\ subglobal' = after.subglobal
             /\ mysamples' = ExtendWithList(mysamples, again)
             /\ invoked' = invoked \o
                  <<[mover |-> call.idx, saw |-> subglobal, out |-> newsamples,
                     applied |-> TRUE],
                    [mover |-> call.idx, saw |-> after.subglobal, out |-> again,
                     applied |-> FALSE]>>
  /\ call' = [call EXCEPT !.idx = @ + 1]
  /\ UNCHANGED <<mover, pc, analysis>>

ISeqReturn ==
  /\ pc = "IndependentSequentialMover"
  /\ call.idx = call.n
  /\ pc' = "returned"
  /\ call' = [op |-> call.op, n |-> call.n, idx |-> call.idx, raised |-> "",
              result |-> mysamples, returns |-> "list"]
  /\ UNCHANGED <<globalstate, mover, subglobal, mysamples, invoked, analysis>>

(***************************************************************************)
(* PartialAcceptanceSequentialMover.move.                                  *)
(***************************************************************************)
\* mysamples.extend(sample) of line 492, for one Sample: extend iterates its
\* argument. The Sample class lies outside this file: it either cannot be
\* iterated (TypeError) or yields its fields.
ExtendWithSample(list, sample, sample_iterable) ==
  IF sample_iterable
  THEN [raised |-> "",
        list |-> list \o <<FieldItem("replica", sample), FieldItem("trajectory", sample),
                           FieldItem("ensemble", sample), FieldItem("details", sample)>>]
  ELSE [raised |-> "TypeError", list |-> list]

\* the loop of lines 491-495 over newsamples[from..]
RECURSIVE PSeqInner(_, _, _, _)
PSeqInner(list, newsamples, from, sample_iterable) ==
  IF from > Len(newsamples)
  THEN [raised |-> "", mysamples |-> list, last_accepted |-> TRUE]
  ELSE LET ext == ExtendWithSample(list, newsamples[from], sample_iterable)
       IN  IF ext.raised # ""
           THEN [raised |-> ext.raised, mysamples |-> list, last_accepted |-> TRUE]
           ELSE IF newsamples[from].details.accepted = FALSE
           THEN [raised |-> "", mysamples |-> ext.list, last_accepted |-> FALSE]
           ELSE PSeqInner(ext.list, newsamples, from + 1, sample_iterable)

\* lines 496-497 left out: the loop over the movers never stops early
PSeqNeverBreaks(last_accepted) == FALSE

\* lines 496-497: if last_accepted == False: break
PSeqBreaks(last_accepted) == last_accepted = FALSE

PSeqStart ==
  /\ pc = "idle"
  /\ \E n \in 1..MaxMovers, it \in BOOLEAN :
       call' = [op |-> "PartialAcceptanceSequentialMover", n |-> n, idx |-> 0,
                last_accepted |-> TRUE, sample_iterable |-> it]
  /\ pc' = "PartialAcceptanceSequentialMover"
  /\ subglobal' = NewSampleSet(legal_sample_set(mover, globalstate, EnsNone))
  /\ mysamples' = <<>>
  /\ invoked' = <<>>
  /\ UNCHANGED <<globalstate, mover, analysis>>

\* one turn of the loop of lines 487-497; an exception leaves move
PSeqStep ==
  /\ pc = "PartialAcceptanceSequentialMover"
  /\ call.idx < call.n
  /\ ~PSeqBreaks(call.last_accepted)
  /\ \E newsamples \in SubMoverMoves(call.idx, subglobal) :
       LET body == PSeqInner(mysamples, newsamples, 1, call.sample_iterable)
       IN  /\ invoked' = Append(invoked, [mover |-> call.idx, saw |-> subglobal,
                                          out |-> newsamples, applied |-> FALSE])
           /\ mysamples' = body.mysamples
           /\ IF body.raised # ""
              THEN /\ pc' = "returned"
                   /\ call' = [op |-> call.op, n |-> call.n, idx |-> call.idx,
                               raised |-> body.raised, result |-> <<>>,
                               returns |-> "nothing"]
              ELSE /\ pc' = pc
                   /\ call' = [call EXCEPT !.idx = @ + 1,
                                           !.last_accepted = body.last_accepted]
  /\ UNCHANGED <<globalstate, mover, subglobal, analysis>>

PSeqReturn ==
  /\ pc = "PartialAcceptanceSequentialMover"
  /\ call.idx = call.n \/ PSeqBreaks(call.last_accepted)
  /\ pc' = "returned"
  /\ call' = [op |-> call.op, n |-> call.n, idx |-> call.idx, raised |-> "",
              result |-> mysamples, returns |-> "list"]
  /\ UNCHANGED <<globalstate, mover, subglobal, mysamples, invoked, analysis>>

(***************************************************************************)
(* The movers and factories whose body is `pass`.                          *)
(***************************************************************************)
\* a function whose body is `pass` runs nothing and returns None
pass == Returned(PyNone)

\* ConditionalSequentialMover.move(globalstate), on an instance with n
\* sub-movers: no sub-mover is invoked
ConditionalSequentialMove ==
  /\ pc = "idle"
  /\ \E n \in 1..MaxMovers :
       call' = [op |-> "ConditionalSequentialMover", n |-> n, out |-> pass,
                returns |-> ReturnKind(pass, "None")]
  /\ pc' = "returned"
  /\ UNCHANGED <<globalstate, mover, subglobal, mysamples, invoked, analysis>>

\* MinusMove.move(allpaths, state)
MinusMove ==
  /\ pc = "idle"
  /\ call' = [op |-> "MinusMove", out |-> pass,
                returns |-> ReturnKind(pass, "None")]
  /\ pc' = "returned"
  /\ UNCHANGED <<globalstate, mover, subglobal, mysamples, invoked, analysis>>

\* PathMoverFactory.TwoWayShootingSet()
TwoWayShootingSet ==
  /\ pc = "idle"
  /\ call' = [op |-> "TwoWayShootingSet", out |-> pass,
                returns |-> ReturnKind(pass, "None")]
  /\ pc' = "returned"
  /\ UNCHANGED <<globalstate, mover, subglobal, mysamples, invoked, analysis>>

\* PathMoverFactory.NearestNeighborRepExSet()
NearestNeighborRepExSet ==
  /\ pc = "idle"
  /\ call' = [op |-> "NearestNeighborRepExSet", out |-> pass,
                returns |-> ReturnKind(pass, "None")]
  /\ pc' = "returned"
  /\ UNCHANGED <<globalstate, mover, subglobal, mysamples, invoked, analysis>>

Next ==
  \/ ShootMove
  \/ MixedMove
  \/ ISeqStart
  \/ ISeqStep
  \/ ISeqReturn
  \/ PSeqStart
  \/ PSeqStep
  \/ PSeqReturn
  \/ PathReversalMove
  \/ ConditionalSequentialMove
  \/ MinusMove
  \/ TwoWayShootingSet
  \/ NearestNeighborRepExSet

Spec == InitMoves /\ [][Next]_vars

ShootReturned == call.op = "ShootMover" /\ call.out.raised = ""

\* C2: an accepted shooting move returns the trial and the trial is in the
\* sample's ensemble; a rejected one returns the original trajectory; a trial
\* outside the ensemble is rejected whatever the random draw.
C2_ShootAcceptedInEnsemble ==
  ShootReturned =>
    LET d == call.out.details
    IN  /\ d.accepted =>
             /\ call.out.trajectory = d.d.trial
             /\ InEnsemble(call.out.ensemble, call.out.trajectory)
        /\ ~d.accepted => call.out.trajectory = call.out.selected.trajectory
        /\ ~InEnsemble(call.out.selected.ensemble, d.d.trial) => ~d.accepted

C2_Witness ==
  /\ ShootReturned
  /\ call.out.details.accepted
  /\ call.out.trajectory # call.out.selected.trajectory

\* C3: for a trial in the ensemble exactly one uniform number u is drawn and
\* the move is accepted iff u < start_point.sum_bias / final_point.sum_bias;
\* so it is always accepted when the ratio is at least 1.
C3_MetropolisAcceptance ==
  (ShootReturned /\ call.out.details.d.trial_is_in_ensemble) =>
    LET d == call.out.details
        s == d.d.start_point.sum_bias
        f == d.d.final_point.sum_bias
    IN  /\ Len(call.out.draws) = 1
        /\ d.accepted <=> (call.out.draws[1] * f < s * RandSteps)
        /\ s >= f => d.accepted

C3_Witness ==
  /\ ShootReturned
  /\ call.out.details.d.trial_is_in_ensemble
  /\ ~call.out.details.accepted
  /\ call.out.details.d.start_point.sum_bias < call.out.details.d.final_point.sum_bias

(***************************************************************************)
(* The movers against their contracts.                                     *)
(***************************************************************************)
\* C1: move(globalstate) of every mover leaves the global state it was given
\* unchanged; a composite applies sub-mover results to its restricted copy.
C1_MoveLeavesGlobalStateUnchanged == [][globalstate' = globalstate]_vars

C1_Witness ==
  /\ pc = "returned"
  /\ call.op = "IndependentSequentialMover"
  /\ globalstate # {}
  /\ subglobal # legal_sample_set(mover, globalstate, EnsNone)

RECURSIVE AppliedOutputs(_, _, _)
\* the restricted set with the outputs of the first j invocations applied
AppliedOutputs(state, log, j) ==
  IF j = 0 THEN state
  ELSE apply_samples(AppliedOutputs(state, log, j - 1), log[j].out)

RECURSIVE ConcatOutputs(_, _)
ConcatOutputs(log, j) ==
  IF j = 0 THEN <<>> ELSE ExtendWithList(ConcatOutputs(log, j - 1), log[j].out)

\* C9: one call of IndependentSequentialMover.move invokes every sub-mover
\* exactly once, in list order, each against the restricted set with all
\* earlier results applied, and returns the concatenation of exactly the
\* samples that were produced and applied.
C9_EachSubMoverOnceInOrder ==
  (pc = "returned" /\ call.op = "IndependentSequentialMover") =>
    /\ Len(invoked) = call.n
    /\ \A j \in DOMAIN invoked :
         /\ invoked[j].mover = j - 1
         /\ invoked[j].applied
         /\ invoked[j].saw =
              AppliedOutputs(legal_sample_set(mover, globalstate, EnsNone), invoked, j - 1)
    /\ call.result = ConcatOutputs(invoked, Len(invoked))

\* C10: in PartialAcceptanceSequentialMover.move no sub-mover is invoked after
\* one has returned a sample whose details.accepted is False.
C10_NoSubMoverAfterRejection ==
  call.op = "PartialAcceptanceSequentialMover" =>
    \A j \in DOMAIN invoked :
      (\E i \in DOMAIN invoked[j].out : invoked[j].out[i].details.accepted = FALSE)
        => j = Len(invoked)

\* movers [A, B, C]: A accepts, B rejects, C is not invoked
C10_Witness ==
  /\ pc = "returned"
  /\ call.op = "PartialAcceptanceSequentialMover"
  /\ call.raised = ""
  /\ call.n = 3
  /\ Len(invoked) = 2
  /\ invoked[1].mover = 0 /\ invoked[1].out # <<>> /\ invoked[1].out[1].details.accepted
  /\ invoked[2].mover = 1 /\ invoked[2].out # <<>> /\ ~invoked[2].out[1].details.accepted

\* the samples of a list up to and including the first rejected one
ThroughFirstRejected(list) ==
  LET rejected == {i \in DOMAIN list : list[i].sample.details.accepted = FALSE}
  IN  IF rejected = {} THEN list
      ELSE SubSeq(list, 1, CHOOSE i \in rejected : \A k \in rejected : i <= k)

\* C11: PartialAcceptanceSequentialMover.move returns, in order, the samples
\* its sub-movers produced up to and including the first one whose
\* details.accepted is False (those of all the sub-movers when none is
\* rejected), each with its accepted flag as produced, and nothing after it.
C11_ReturnsSamplesThroughFirstRejection ==
  (pc = "returned" /\ call.op = "PartialAcceptanceSequentialMover") =>
    LET produced == ConcatOutputs(invoked, Len(invoked))
    IN  /\ call.raised = ""
        /\ call.result = ThroughFirstRejected(produced)
        /\ ThroughFirstRejected(produced) = produced =>
             (Len(invoked) = call.n \/ ~produced[Len(produced)].sample.details.accepted)

\* C12: ConditionalSequentialMover.move is all-or-nothing: it returns the
\* samples of its sub-moves, every one of them with details.accepted False
\* when any sub-move was rejected and every one accepted when none was.
C12_AllOrNothing ==
  (pc = "returned" /\ call.op = "ConditionalSequentialMover") =>
    /\ call.out.raised = ""
    /\ call.out.value.kind = "list"
    /\ LET any_rejected ==
             \E j \in DOMAIN invoked : \E i \in DOMAIN invoked[j].out :
               invoked[j].out[i].details.accepted = FALSE
       IN  \A k \in DOMAIN call.out.value.items :
             call.out.value.items[k].sample.details.accepted = ~any_rejected

Unimplemented ==
  {"MinusMove", "ConditionalSequentialMover", "TwoWayShootingSet",
   "NearestNeighborRepExSet"}

\* C13: a call of an unimplemented mover or factory (MinusMove.move,
\* ConditionalSequentialMover.move, PathMoverFactory.TwoWayShootingSet,
\* PathMoverFactory.NearestNeighborRepExSet) ends in IncompleteMoveError; none
\* returns normally.
C13_UnimplementedRaises ==
  (pc = "returned" /\ call.op \in Unimplemented) =>
    call.out.raised = "IncompleteMoveError"

PathReversalReturned == call.op = "PathReversalMover" /\ call.out.raised = ""

\* C14: PathReversalMover.move is accepted iff the reversal of the selected
\* sample's trajectory is in that sample's ensemble; an accepted move returns
\* the reversed trajectory with acceptance_probability 1.0, a rejected one the
\* original trajectory with 0.0; replica and ensemble are the selected
\* sample's.
C14_ReversalAcceptedIffInEnsemble ==
  PathReversalReturned =>
    LET selected == call.out.selected
        d == call.out.details
    IN  /\ selected \in globalstate
        /\ d.accepted <=> InEnsemble(selected.ensemble, Reversed(selected.trajectory))
        /\ d.accepted =>
             /\ call.out.trajectory = Reversed(selected.trajectory)
             /\ d.acceptance_probability = 1
        /\ ~d.accepted =>
             /\ call.out.trajectory = selected.trajectory
             /\ d.acceptance_probability = 0
        /\ call.out.replica = selected.replica
        /\ call.out.ensemble = selected.ensemble

\* an accepted reversal that changed the trajectory
C14_Witness ==
  /\ PathReversalReturned
  /\ call.out.details.accepted
  /\ call.out.trajectory # call.out.selected.trajectory

(***************************************************************************)
(* ReplicaExchange.move(trajectory1, trajectory2, ensemble1, ensemble2).   *)
(***************************************************************************)
\* lines 640-655 with the swap left out of the accepting branch
ExchangeResultsNoSwap(accepted, trajectory1, trajectory2) ==
  [result1 |-> trajectory1, result2 |-> trajectory2]

\* lines 640-655: details1.result and details2.result
ExchangeResults(accepted, trajectory1, trajectory2) ==
  IF accepted
  THEN [result1 |-> trajectory2, result2 |-> trajectory1]
  ELSE [result1 |-> trajectory1, result2 |-> trajectory2]

\* the list [sample1, sample2]; the Samples are built without a replica
ReplicaExchangeMoves(trajectory1, trajectory2, ensemble1, ensemble2) ==
  LET accepted == TRUE
      r == ExchangeResults(accepted, trajectory1, trajectory2)
      details1 == [object |-> "details1",
                   inputs |-> <<trajectory1, trajectory2>>,
                   ensembles |-> <<ensemble1, ensemble2>>,
                   trial |-> trajectory2,
                   accepted |-> accepted,
                   acceptance_probability |-> IF accepted THEN 1 ELSE 0,
                   result |-> r.result1]
      details2 == [object |-> "details2",
                   inputs |-> <<trajectory1, trajectory2>>,
                   ensembles |-> <<ensemble1, ensemble2>>,
                   trial |-> trajectory1,
                   accepted |-> accepted,
                   acceptance_probability |-> IF accepted THEN 1 ELSE 0,
                   result |-> r.result2]
  IN  <<[replica |-> "None", trajectory |-> details1.result,
         ensemble |-> ensemble1, details |-> details1],
        [replica |-> "None", trajectory |-> details2.result,
         ensemble |-> ensemble2, details |-> details2]>>

InitExchange ==
  /\ globalstate = {}
  /\ mover = PathMover__init__(RepAll, EnsNone)
  /\ pc = "idle"
  /\ call = NoCall
  /\ subglobal = {}
  /\ mysamples = <<>>
  /\ invoked = <<>>
  /\ analysis = NoAnalysis

ReplicaExchangeMove ==
  /\ pc = "idle"
  /\ \E t1 \in Trajectories, t2 \in Trajectories, e1 \in Ensembles, e2 \in Ensembles :
       call' = [op |-> "ReplicaExchange", t1 |-> t1, t2 |-> t2, e1 |-> e1, e2 |-> e2,
                result |-> ReplicaExchangeMoves(t1, t2, e1, e2), returns |-> "list"]
  /\ pc' = "returned"
  /\ UNCHANGED <<globalstate, mover, subglobal, mysamples, invoked, analysis>>

NextExchange == ReplicaExchangeMove

SpecExchange == InitExchange /\ [][NextExchange]_vars

\* C15: ReplicaExchange.move(t1, t2, e1, e2) returns exactly two samples, the
\* first with ensemble e1 and the second with e2; when accepted their
\* trajectories are t2 and t1, when rejected t1 and t2; the two accepted flags
\* are equal, and each sample has its own MoveDetails with inputs [t1, t2].
C15_ExchangeReturnsSwappedPair ==
  call.op = "ReplicaExchange" =>
    LET r == call.result
    IN  /\ Len(r) = 2
        /\ r[1].ensemble = call.e1 /\ r[2].ensemble = call.e2
        /\ r[1].details.accepted = r[2].details.accepted
        /\ r[1].details.accepted =>
             r[1].trajectory = call.t2 /\ r[2].trajectory = call.t1
        /\ ~r[1].details.accepted =>
             r[1].trajectory = call.t1 /\ r[2].trajectory = call.t2
        /\ r[1].details.object # r[2].details.object
        /\ r[1].details.inputs = <<call.t1, call.t2>>
        /\ r[2].details.inputs = <<call.t1, call.t2>>

\* an exchange of two different trajectories between two different ensembles
C15_Witness ==
  /\ pc = "returned"
  /\ call.op = "ReplicaExchange"
  /\ call.t1 # call.t2 /\ call.e1 # call.e2
  /\ call.result[1].details.accepted
  /\ call.result[1].trajectory = call.t2

(***************************************************************************)
(* EnsembleHopMover.move.                                                  *)
(***************************************************************************)
\* EnsembleHopMover(ensembles=..., replicas=...) once constructed:
\* self.ensembles is what make_list_of_pairs returned
EnsembleHopMover(ensembles, replicas) ==
  [replicas  |-> PathMover__init__(replicas, EnsNone).replicas,
   ensembles |-> EnsembleHopMover__init__(ensembles).ensembles]

\* the ensembles arguments the movers are built with: none, a flat list, lists
\* of pairs, and a flat list the constructor lets through with a list in it
HopEnsemblesArgs ==
  {PyNone,
   PyList(<<Atom("EnsA"), Atom("EnsAB")>>),
   PyList(<<Lst(<<Atom("EnsAB"), Atom("EnsA")>>)>>),
   PyList(<<Lst(<<Atom("EnsA"), Atom("EnsAB")>>), Lst(<<Atom("EnsAB"), Atom("EnsAB")>>)>>),
   PyList(<<Atom("EnsA"), Lst(<<Atom("EnsA")>>)>>)}

HopMovers ==
  {EnsembleHopMover(e, r) : e \in {a \in HopEnsemblesArgs : EnsembleHopMover__init__(a).raised = ""},
                            r \in {RepAll, RepInt(0)}}

\* an ensemble, or a list of ensembles, as the ensembles argument of
\* select_sample
AsEnsemblesArg(e) ==
  IF e.isList THEN EnsList([i \in DOMAIN e.items |-> e.items[i].atom]) ELSE EnsOne(e.atom)

\* line 571 testing the ensemble the sample comes from
HopAcceptsFrom(ens_from, ens_to, trajectory) == InEnsemble(ens_from, trajectory)

\* line 571: details.accepted = ens_to(trajectory)
HopAccepts(ens_from, ens_to, trajectory) == InEnsemble(ens_to, trajectory)

EnsembleHopMoves(self, state) ==
  IF self.ensembles.kind = "None"
  THEN {[raised |-> "TypeError"]}                      \* random.choice(None)
  ELSE UNION {
    LET ens_from == ens_pair.items[1]
        ens_to == ens_pair.items[2]
    IN  { IF sel.raised # "" THEN [raised |-> sel.raised]
          ELSE IF ens_to.isList THEN [raised |-> "TypeError"]   \* a list is not callable
          ELSE LET trajectory == sel.sample.trajectory
                   accepted == HopAccepts(ens_from.atom, ens_to.atom, trajectory)
                   result_ensemble == IF accepted THEN ens_to.atom ELSE ens_from.atom
               IN  [raised |-> "",
                    ens_pair |-> <<ens_from.atom, ens_to.atom>>,
                    selected |-> sel.sample,
                    replica |-> sel.sample.replica,
                    trajectory |-> trajectory,
                    ensemble |-> result_ensemble,
                    details |-> [accepted |-> accepted,
                                 inputs |-> <<trajectory>>,
                                 trial |-> PyNone,      \* as MoveDetails() left it
                                 result |-> trajectory,
                                 initial_ensemble |-> ens_from.atom,
                                 trial_ensemble |-> ens_to.atom,
                                 result_ensemble |-> result_ensemble]]
        : sel \in select_sample(self, state, AsEnsemblesArg(ens_from)) }
    : ens_pair \in Range(self.ensembles.items) }

InitHop ==
  /\ globalstate \in SampleSets
  /\ mover \in HopMovers
  /\ pc = "idle"
  /\ call = NoCall
  /\ subglobal = {}
  /\ mysamples = <<>>
  /\ invoked = <<>>
  /\ analysis = NoAnalysis

EnsembleHopMove ==
  /\ pc = "idle"
  /\ \E out \in EnsembleHopMoves(mover, globalstate) :
       call' = [op |-> "EnsembleHopMover", out |-> out,
                returns |-> ReturnKind(out, "Sample")]
  /\ pc' = "returned"
  /\ UNCHANGED <<globalstate, mover, subglobal, mysamples, invoked, analysis>>

NextHop == EnsembleHopMove

SpecHop == InitHop /\ [][NextHop]_vars

EnsembleHopReturned == call.op = "EnsembleHopMover" /\ call.out.raised = ""

\* C16: EnsembleHopMover.move picks a configured (from, to) pair and a sample
\* of the state that is in `from` and in the mover's replicas; the sample it
\* returns has that replica and trajectory, and its ensemble is `to` iff `to`
\* holds on the trajectory and `from` otherwise; details.accepted is True
\* exactly when it is `to`'s test that held.
C16_HopRelabelsIffTargetHolds ==
  EnsembleHopReturned =>
    LET out == call.out
        from == out.ens_pair[1]
        to == out.ens_pair[2]
        holds == InEnsemble(to, out.selected.trajectory)
    IN  /\ \E i \in DOMAIN mover.ensembles.items :
             /\ mover.ensembles.items[i].isList
             /\ mover.ensembles.items[i].items = <<Atom(from), Atom(to)>>
        /\ out.selected \in globalstate
        /\ out.selected.ensemble = from
        /\ mover.replicas.kind = "list" => out.selected.replica \in Range(mover.replicas.list)
        /\ out.replica = out.selected.replica
        /\ out.trajectory = out.selected.trajectory
        /\ out.ensemble = IF holds THEN to ELSE from
        /\ out.details.accepted <=> holds

\* a hop to another ensemble that was accepted
C16_Witness ==
  /\ EnsembleHopReturned
  /\ call.out.ens_pair[1] # call.out.ens_pair[2]
  /\ call.out.details.accepted
  /\ call.out.ensemble = call.out.ens_pair[2]

(***************************************************************************)
(* ReplicaIDChange.                                                        *)
(***************************************************************************)
RepNone == [kind |-> "None", n |-> 0, list |-> <<>>]

\* a value passed as `ensembles` and received as `replicas`, and the reverse
\* (None and 'all' are the values both parameters know)
EnsemblesAsReplicas(ensembles) ==
  IF ensembles.kind = "None" THEN RepNone ELSE RepAll
ReplicasAsEnsembles(replicas) ==
  IF replicas.kind = "None" THEN EnsNone ELSE EnsOne("all")

\* line 520: super().__init__(ensembles, replicas) hands the two arguments by
\* position to PathMover.__init__(replicas, ensembles)
ReplicaIDChange__init__(new_replicas, old_samples, ensembles, replicas) ==
  LET base == PathMover__init__(EnsemblesAsReplicas(ensembles),
                                ReplicasAsEnsembles(replicas))
  IN  [replicas     |-> base.replicas,
       ensembles    |-> base.ensembles,
       args         |-> [replicas |-> replicas, ensembles |-> ensembles],
       new_replicas |-> new_replicas,
       old_samples  |-> old_samples]

\* new_replicas: the new id of every replica
NewReplicasArgs == {[r \in Replicas |-> r + 2], [r \in Replicas |-> 1 - r]}

\* old_samples: the sample recorded for every replica
OldSamplesArgs == {[r \in Replicas |-> Sample(r, p[1], p[2])] : p \in ActivePairs}

ReplicaIDChangeMovers ==
  {ReplicaIDChange__init__(n, o, e, r) :
     n \in NewReplicasArgs, o \in OldSamplesArgs,
     e \in {EnsNone, EnsOne("all")}, r \in {RepAll, RepNone}}

\* Sample(replica=..., ensemble=..., trajectory=...): no details are given
SampleWithoutDetails(rep, ens, traj) ==
  [replica |-> rep, trajectory |-> traj, ensemble |-> ens, details |-> "None"]

\* lines 533-536
DeadSample(rep_sample, old_sample) ==
  SampleWithoutDetails(rep_sample.replica, old_sample.ensemble, old_sample.trajectory)

ReplicaIDChangeMoves(self, state) ==
  IF self.replicas.kind = "None"
  THEN {[raised |-> "TypeError"]}       \* `for rep in reps` of line 194, reps None
  ELSE { IF sel.raised # "" THEN [raised |-> sel.raised]
         ELSE LET rep_sample == sel.sample
                  new_rep == self.new_replicas[rep_sample.replica]
                  old_sample == self.old_samples[rep_sample.replica]
              IN  [raised |-> "",
                   selected |-> rep_sample,
                   result |-> <<DeadSample(rep_sample, old_sample),
                                SampleWithoutDetails(new_rep, rep_sample.ensemble,
                                                     rep_sample.trajectory)>>]
       : sel \in select_sample(self, state, self.ensembles) }

InitReplicaIDChange ==
  /\ globalstate \in SampleSets
  /\ mover \in ReplicaIDChangeMovers
  /\ pc = "idle"
  /\ call = NoCall
  /\ subglobal = {}
  /\ mysamples = <<>>
  /\ invoked = <<>>
  /\ analysis = NoAnalysis

ReplicaIDChangeMove ==
  /\ pc = "idle"
  /\ \E out \in ReplicaIDChangeMoves(mover, globalstate) :
       call' = [op |-> "ReplicaIDChange", out |-> out,
                returns |-> ReturnKind(out, "list")]
  /\ pc' = "returned"
  /\ UNCHANGED <<globalstate, mover, subglobal, mysamples, invoked, analysis>>

NextReplicaIDChange == ReplicaIDChangeMove

SpecReplicaIDChange == InitReplicaIDChange /\ [][NextReplicaIDChange]_vars

\* C19: whenever the state holds a sample that is legal for the mover as it
\* was configured, ReplicaIDChange.move succeeds and returns two samples for
\* the selected sample s: one under s's replica id with the ensemble and
\* trajectory of the old_sample recorded for that replica, and one under the
\* new replica id of s.replica with s's trajectory and ensemble.
C19_ReplicaIDChangeAlwaysSucceeds ==
  (pc = "returned" /\ call.op = "ReplicaIDChange"
     /\ LegalByContract(mover, globalstate, EnsNone) # {}) =>
    /\ call.out.raised = ""
    /\ LET s == call.out.selected
           old == mover.old_samples[s.replica]
           r == call.out.result
       IN  /\ s \in LegalByContract(mover, globalstate, EnsNone)
           /\ Len(r) = 2
           /\ r[1].replica = s.replica
           /\ r[1].ensemble = old.ensemble /\ r[1].trajectory = old.trajectory
           /\ r[2].replica = mover.new_replicas[s.replica]
           /\ r[2].ensemble = s.ensemble /\ r[2].trajectory = s.trajectory

ConcreteMovers ==
  {"ShootMover", "PathReversalMover", "EnsembleHopMover", "ReplicaIDChange",
   "ReplicaExchange", "MixedMover", "IndependentSequentialMover",
   "PartialAcceptanceSequentialMover"}

\* C17: when move of a concrete mover (shooting, path reversal, ensemble hop,
\* replica-id change, replica exchange, MixedMover, the sequential composites)
\* returns, what it returns is a list of Samples.
C17_MoveReturnsList ==
  (pc = "returned" /\ call.op \in ConcreteMovers /\ call.returns # "nothing") =>
    call.returns = "list"

(***************************************************************************)
(* Constructors of the shooting movers and of MixedMover, and              *)
(* PathMoverFactory.OneWayShootingSet.                                     *)
(***************************************************************************)
MaxInterfaces == 3

Selectors == {"sel1", "sel2"}

\* ForwardShootMover / BackwardShootMover (selector, ensembles, replicas)
ShootMover__init__(class, selector, ensembles, replicas) ==
  LET base == PathMover__init__(replicas, ensembles)
  IN  [class |-> class, selector |-> selector,
       replicas |-> base.replicas, ensembles |-> base.ensembles]

\* the weights argument: None or a list
WeightsNone == [kind |-> "None", list |-> <<>>]
WeightsList(w) == [kind |-> "list", list |-> w]

\* MixedMover(movers, ensembles, replicas, weights): the object built, and
\* the exception that left the constructor ("" when none did)
MixedMover__init__(movers, ensembles, replicas, weights) ==
  LET base == PathMover__init__(replicas, ensembles)
  IN  [raised |-> "",
       class |-> "MixedMover",
       replicas |-> base.replicas,
       ensembles |-> base.ensembles,
       movers |-> movers,
       weights |-> IF weights.kind = "None"
                   THEN [i \in 1..Len(movers) |-> 1]
                   ELSE weights.list]

\* zip(a, b): as long as the shorter of the two
zip(a, b) ==
  [i \in 1..(IF Len(a) <= Len(b) THEN Len(a) ELSE Len(b)) |-> <<a[i], b[i]>>]

OneWayShootingSet(selector_set, interface_set) ==
  LET selectors == IF ~selector_set.isList
                   THEN [i \in 1..Len(interface_set) |-> selector_set]
                   ELSE selector_set.items
      pairs == zip(selectors, interface_set)
  IN  [i \in DOMAIN pairs |->
         LET sel == pairs[i][1].atom
             iface == pairs[i][2]
         IN  MixedMover__init__(
               <<ShootMover__init__("ForwardShootMover", sel, EnsList(<<iface>>), RepAll),
                 ShootMover__init__("BackwardShootMover", sel, EnsList(<<iface>>), RepAll)>>,
               EnsList(<<iface>>), RepAll, WeightsNone)]

SelectorSetArgs ==
  {Atom(s) : s \in Selectors}
    \cup {Lst(l) : l \in UNION {[1..k -> {Atom(s) : s \in Selectors}] : k \in 0..MaxInterfaces}}

InterfaceSetArgs == UNION {[1..k -> Ensembles] : k \in 0..MaxInterfaces}

WeightsArgs ==
  {WeightsNone}
    \cup {WeightsList(w) : w \in UNION {[1..k -> 0..MaxWeight] : k \in 0..MaxMovers}}

InitFactory ==
  /\ globalstate = {}
  /\ mover = PathMover__init__(RepAll, EnsNone)
  /\ pc = "idle"
  /\ call = NoCall
  /\ subglobal = {}
  /\ mysamples = <<>>
  /\ invoked = <<>>
  /\ analysis = NoAnalysis

\* a call PathMoverFactory.OneWayShootingSet(selector_set, interface_set)
CallOneWayShootingSet ==
  /\ pc = "idle"
  /\ \E selector_set \in SelectorSetArgs, interface_set \in InterfaceSetArgs :
       call' = [op |-> "OneWayShootingSet", selector_set |-> selector_set,
                interface_set |-> interface_set,
                result |-> OneWayShootingSet(selector_set, interface_set)]
  /\ pc' = "returned"
  /\ UNCHANGED <<globalstate, mover, subglobal, mysamples, invoked, analysis>>

\* a call MixedMover(movers, weights=weights) with 1..MaxMovers sub-movers
ConstructMixedMover ==
  /\ pc = "idle"
  /\ \E n \in 1..MaxMovers, weights \in WeightsArgs :
       LET movers == [i \in 1..n |->
                        ShootMover__init__("ForwardShootMover", "sel1", EnsNone, RepAll)]
       IN  call' = [op |-> "MixedMover.__init__", movers |-> movers,
                    weights |-> weights,
                    out |-> MixedMover__init__(movers, EnsNone, RepAll, weights)]
  /\ pc' = "returned"
  /\ UNCHANGED <<globalstate, mover, subglobal, mysamples, invoked, analysis>>

NextFactory == CallOneWayShootingSet \/ ConstructMixedMover

SpecFactory == InitFactory /\ [][NextFactory]_vars

\* C18: OneWayShootingSet(selectors, interfaces) returns one mover per
\* interface, in interface order: the i-th is a MixedMover restricted to
\* interface i over a ForwardShootMover and a BackwardShootMover, both
\* restricted to interface i and both with the selector paired with
\* interface i (the one selector given when selectors is not a list).
C18_OneMoverPerInterface ==
  call.op = "OneWayShootingSet" =>
    LET r == call.result
        interfaces == call.interface_set
        selector(i) == IF call.selector_set.isList
                       THEN call.selector_set.items[i].atom
                       ELSE call.selector_set.atom
    IN  /\ Len(r) = Len(interfaces)
        /\ \A i \in DOMAIN interfaces :
             /\ r[i].class = "MixedMover"
             /\ r[i].ensembles = EnsList(<<interfaces[i]>>)
             /\ Len(r[i].movers) = 2
             /\ r[i].movers[1].class = "ForwardShootMover"
             /\ r[i].movers[2].class = "BackwardShootMover"
             /\ \A m \in 1..2 :
                  /\ r[i].movers[m].ensembles = EnsList(<<interfaces[i]>>)
                  /\ r[i].movers[m].selector = selector(i)

\* C20: the construction of a MixedMover with a weights list whose length
\* differs from that of its movers list is rejected: it raises, and no such
\* mover exists to have move() called on it.
C20_MismatchedWeightsRejected ==
  (call.op = "MixedMover.__init__" /\ call.weights.kind = "list"
     /\ Len(call.weights.list) # Len(call.movers)) =>
    call.out.raised # ""

\* weights[0] + ... + weights[i], i 0-based
CumulativeWeight(weights, i) == SumSeq(SubSeq(weights, 1, i + 1))

\* the scaled draw (k / RandSteps) * sum(weights) is below the cumulative
\* weight through index i
DrawBelow(weights, k, i) ==
  k * SumSeq(weights) < CumulativeWeight(weights, i) * RandSteps

\* C21: with a positive sum of weights one call of MixedMover.move invokes
\* exactly one sub-mover, once: the one at the least index i whose cumulative
\* weight is above the scaled draw; the sample returned has the replica,
\* trajectory and ensemble of that sub-mover's sample and details.mover_idx = i.
C21_OneSubMoverByCumulativeWeight ==
  (call.op = "MixedMover" /\ SumSeq(call.out.weights) > 0) =>
    LET out == call.out
        i == out.invoked[1]
    IN  /\ Len(out.invoked) = 1
        /\ i \in 0..(Len(out.weights) - 1)
        /\ DrawBelow(out.weights, out.draw, i)
        /\ \A j \in 0..(i - 1) : ~DrawBelow(out.weights, out.draw, j)
        /\ out.raised = "" =>
             /\ out.replica = out.submove.replica
             /\ out.trajectory = out.submove.trajectory
             /\ out.ensemble = out.submove.ensemble
             /\ out.details.mover_idx = i

\* weights [1, 1, 1] and a draw in the last third: sub-mover 2 runs
C21_Witness ==
  /\ call.op = "MixedMover"
  /\ call.out.raised = ""
  /\ call.out.weights = <<1, 1, 1>>
  /\ call.out.draw = RandSteps - 1
  /\ call.out.invoked = <<2>>
  /\ call.out.details.mover_idx = 2

\* C22: in PartialAcceptanceSequentialMover.move every sub-mover runs against
\* the restricted sample set with the samples of all the sub-movers before it
\* applied, as in IndependentSequentialMover.
C22_LaterSubMoversSeeEarlierResults ==
  call.op = "PartialAcceptanceSequentialMover" =>
    \A j \in DOMAIN invoked :
      invoked[j].saw =
        AppliedOutputs(legal_sample_set(mover, globalstate, EnsNone), invoked, j - 1)

\* C23: after every shooting move the MoveDetails of the returned sample has
\* start, start_point, trial, final_point, trial_is_in_ensemble and accepted
\* set, and its acceptance_probability is set: it holds the ratio
\* start_point.sum_bias / final_point.sum_bias of the acceptance comparison.
C23_ShootDetailsComplete ==
  ShootReturned =>
    LET d == call.out.details
    IN  /\ Len(d.d.start) > 0
        /\ d.d.start_point.sum_bias \in Biases
        /\ Len(d.d.trial) > 0
        /\ d.d.final_point.sum_bias \in Biases
        /\ d.d.trial_is_in_ensemble \in BOOLEAN
        /\ d.accepted \in BOOLEAN
        /\ d.d.acceptance_probability # "None"

\* C24: a sample returned by a shooting, path-reversal, ensemble-hop or
\* replica-exchange move has trajectory = details.result, and details.result
\* is details.trial when details.accepted is True and the sample's input
\* trajectory when it is False.
C24_ResultIsTrialOrInput ==
  /\ ShootReturned =>
       LET d == call.out.details
       IN  /\ call.out.trajectory = d.result
           /\ d.accepted => d.result = d.d.trial
           /\ ~d.accepted => d.result = call.out.selected.trajectory
  /\ PathReversalReturned =>
       LET d == call.out.details
       IN  /\ call.out.trajectory = d.result
           /\ d.accepted => d.result = d.trial
           /\ ~d.accepted => d.result = call.out.selected.trajectory
  /\ EnsembleHopReturned =>
       LET d == call.out.details
       IN  /\ call.out.trajectory = d.result
           /\ d.accepted => (d.trial.kind # "None" /\ d.trial.items = d.result)
           /\ ~d.accepted => d.result = call.out.selected.trajectory
  /\ call.op = "ReplicaExchange" =>
       \A i \in 1..2 :
         LET d == call.result[i].details
         IN  /\ call.result[i].trajectory = d.result
             /\ d.accepted => d.result = d.trial
             /\ ~d.accepted => d.result = d.inputs[i]

\* C25: every sample a mover returns carries a MoveDetails whose accepted
\* field is True or False when move returns: never None, never absent.
C25_AcceptedDecidedAtReturn ==
  /\ ShootReturned => call.out.details.accepted \in BOOLEAN
  /\ PathReversalReturned => call.out.details.accepted \in BOOLEAN
  /\ EnsembleHopReturned => call.out.details.accepted \in BOOLEAN
  /\ (call.op = "MixedMover" /\ call.out.raised = "") =>
       call.out.details.d.accepted \in BOOLEAN
  /\ call.op = "ReplicaExchange" =>
       \A i \in DOMAIN call.result : call.result[i].details.accepted \in BOOLEAN
  /\ (call.op = "ReplicaIDChange" /\ call.out.raised = "") =>
       \A i \in DOMAIN call.out.result : call.out.result[i].details # "None"

\* C26: for every shooting index i of a start trajectory of length n, with an
\* engine whose segment starts at the snapshot it was given: the forward trial
\* is start[0..i) followed by the segment, the backward trial the reversed
\* segment followed by start(i..n); the trial is not empty and its frame at
\* final_point.index is the shooting frame start[i].
C26_SpliceAtEveryIndex ==
  ShootReturned =>
    LET d == call.out.details.d
        i == d.start_point.index
        n == Len(d.start)
        partial == call.out.partial_trajectory
    IN  /\ i \in 0..(n - 1)
        /\ partial[1] = d.start[i + 1]
        /\ call.direction = "forward" => d.trial = SubSeq(d.start, 1, i) \o partial
        /\ call.direction = "backward" =>
             d.trial = Reversed(partial) \o SubSeq(d.start, i + 2, n)
        /\ Len(d.trial) > 0
        /\ d.final_point.index \in 0..(Len(d.trial) - 1)
        /\ d.trial[d.final_point.index + 1] = d.start[i + 1]
        /\ d.final_point.snapshot = d.start_point.snapshot

\* a backward shot from the last frame of a two-frame trajectory: nothing of
\* the start is retained
C26_Witness ==
  /\ ShootReturned
  /\ call.direction = "backward"
  /\ Len(call.out.details.d.start) = 2
  /\ call.out.details.d.start_point.index = 1
  /\ call.out.details.d.trial = Reversed(call.out.partial_trajectory)

\* C27: for every list of non-negative weights as long as the movers list,
\* all-zero lists included, and every draw, the selection loop of
\* MixedMover.move ends with an index in [0, len(movers)) and reads no weight
\* past the end of the list.
C27_SelectionIndexInRange ==
  call.op = "MixedMover" =>
    LET sel == MixedSelect(call.out.weights, call.out.draw)
    IN  /\ sel.raised = ""
        /\ sel.idx \in 0..(Len(call.out.weights) - 1)

(***************************************************************************)
(* ChannelAnalysis (src/openpathsampling/analysis/channel_analysis.py).    *)
(* A channel is a name with an ensemble; what the analysis reads of a      *)
(* trajectory is which channels' ensembles split it into at least one      *)
(* sub-trajectory.                                                         *)
(***************************************************************************)
MaxSteps == 3
MaxCycle == 4

\* the names of the channels dictionary
ChannelNames == {"a", "b"}

\* the key None of _results
NoneKey == "<None>"

Labels == ChannelNames \cup {NoneKey}

\* trajectory objects: two objects can hold paths of the same channels
TrajectoryObjects == [id : 1..2, matches : SUBSET ChannelNames]

\* an MCStep: its cycle number and the trajectory active for the replica
MCSteps == [mccycle : 0..MaxCycle, trajectory : TrajectoryObjects]

\* the sequences of steps of a simulation: cycle numbers strictly increasing
StepSequences ==
  {s \in UNION {[1..k -> MCSteps] : k \in 0..MaxSteps} :
     \A i \in DOMAIN s : i > 1 => s[i - 1].mccycle < s[i].mccycle}

\* an optional step number: None is the empty sequence
NoStepNum == <<>>
SomeStepNum(n) == <<n>>

\* lines 76-77 and 85-87: {c: len(self.channels[c].split(traj)) > 0}, and
\* result[None] = not any(result.values())
ChannelResult(traj) ==
  [c \in Labels |-> IF c = NoneKey THEN traj.matches = {} ELSE c \in traj.matches]

\* one turn of the loop of lines 72-98; st holds prev_traj (with `first` for
\* prev_traj is None), prev_result, last_start and self._results
AnalyzeStep(st, step) ==
  LET step_num == step.mccycle
      traj == step.trajectory
      prev_result == IF st.first THEN ChannelResult(traj) ELSE st.prev_result
      last_start == IF st.first
                    THEN [c \in Labels |-> IF prev_result[c] THEN SomeStepNum(step_num)
                                           ELSE st.last_start[c]]
                    ELSE st.last_start
  IN  IF ~st.first /\ traj = st.prev_traj          \* traj is prev_traj
      THEN [first |-> FALSE, prev_traj |-> traj, prev_result |-> prev_result,
            last_start |-> last_start, results |-> st.results, step_num |-> step_num]
      ELSE LET result == ChannelResult(traj)
               changed == {c \in Labels : result[c] # prev_result[c]}
           IN  [first |-> FALSE, prev_traj |-> traj, prev_result |-> result,
                last_start |-> [c \in Labels |->
                                  IF c \notin changed THEN last_start[c]
                                  ELSE IF result[c] THEN SomeStepNum(step_num)
                                  ELSE NoStepNum],
                results |-> [c \in Labels |->
                               IF c \in changed /\ ~result[c]
                               THEN Append(st.results[c], <<last_start[c][1], step_num>>)
                               ELSE st.results[c]],
                step_num |-> step_num]

RECURSIVE AnalyzeLoop(_, _, _)
AnalyzeLoop(st, steps, i) ==
  IF i > Len(steps) THEN st ELSE AnalyzeLoop(AnalyzeStep(st, steps[i]), steps, i + 1)

\* lines 100-110: the labels still occupied after the last step end at
\* next_step = step_num + 1
FinishOff(st) ==
  LET next_step == st.step_num + 1
  IN  [c \in Labels |->
         IF st.last_start[c] # NoStepNum
         THEN IF Len(st.results[c]) > 0
              THEN IF st.results[c][Len(st.results[c])][2] # st.step_num
                   THEN Append(st.results[c], <<st.last_start[c][1], next_step>>)
                   ELSE st.results[c]
              ELSE Append(st.results[c], <<st.last_start[c][1], next_step>>)
         ELSE st.results[c]]

\* ChannelAnalysis._analyze(steps): the new self._results
analyze(results, steps) ==
  FinishOff(AnalyzeLoop([first |-> TRUE, prev_traj |-> steps[1].trajectory,
                         prev_result |-> ChannelResult(steps[1].trajectory),
                         last_start |-> [c \in Labels |-> NoStepNum],
                         results |-> results, step_num |-> 0],
                        steps, 1))

\* ChannelAnalysis(steps, channels): results start empty and are filled only
\* when there are steps
ChannelAnalysis__init__(steps) ==
  LET empty == [c \in Labels |-> <<>>]
  IN  [class |-> "ChannelAnalysis",
       steps |-> steps,
       treat_multiples |-> "all",
       results |-> IF Len(steps) > 0 THEN analyze(empty, steps) ELSE empty]

\* _expand_results: one (start, end, {channel}) per interval of every label.
\* The sorted list is only read by a loop whose outcome does not depend on
\* its order, so it is kept as the set of its entries.
expand_results(results) ==
  UNION {{[start |-> results[c][i][1], end |-> results[c][i][2], label |-> {c}] :
            i \in DOMAIN results[c]} : c \in Labels}

\* sorted(list(s)) for a set of step numbers
RECURSIVE SortedSteps(_)
SortedSteps(s) ==
  IF s = {} THEN <<>>
  ELSE LET m == CHOOSE x \in s : \A y \in s : x <= y
       IN  <<m>> \o SortedSteps(s \ {m})

\* the loop of lines 178-188 from the i-th event step
RECURSIVE RelabelLoop(_, _, _, _, _, _)
RelabelLoop(expanded, steps, i, relabeled, active_channels, prev_step_num) ==
  IF i > Len(steps) THEN relabeled
  ELSE LET step_num == steps[i]
           start_events == UNION {e.label : e \in {x \in expanded : x.start = step_num}}
           finish_events == UNION {e.label : e \in {x \in expanded : x.end = step_num}}
       IN  RelabelLoop(expanded, steps, i + 1,
                       IF prev_step_num # NoStepNum
                       THEN Append(relabeled, [start |-> prev_step_num[1],
                                               end |-> step_num,
                                               label |-> active_channels])
                       ELSE relabeled,
                       (active_channels \ finish_events) \cup start_events,
                       SomeStepNum(step_num))

\* _labels_by_step_multiple
labels_by_step_multiple(expanded_results) ==
  LET all_event_steps == {e.start : e \in expanded_results}
                           \cup {e.end : e \in expanded_results}
  IN  RelabelLoop(expanded_results, SortedSteps(all_event_steps), 1, <<>>, {},
                  NoStepNum)

\* str(l) of a label: the key None prints as None
str(l) == IF l = NoneKey THEN "None" ELSE l

\* the strings the labels print as, in the order Python sorts them
StringOrder == <<"None", "a", "b">>

RECURSIVE join(_, _)
\* sep.join(list)
join(sep, list) ==
  IF list = <<>> THEN ""
  ELSE IF Len(list) = 1 THEN list[1]
  ELSE list[1] \o sep \o join(sep, Tail(list))

\* label_to_string: ",".join(sorted([str(l) for l in list(label)]))
label_to_string(label) ==
  LET strs == {str(l) : l \in label}
      InLabel(x) == x \in strs
  IN  join(",", SelectSeq(StringOrder, InLabel))

\* the first labelled interval from the i-th on that holds step_number, 0 when
\* there is none
RECURSIVE FirstHolding(_, _, _)
FirstHolding(labeled_results, step_number, i) ==
  IF i > Len(labeled_results) THEN 0
  ELSE IF labeled_results[i].start <= step_number
            /\ step_number < labeled_results[i].end
  THEN i
  ELSE FirstHolding(labeled_results, step_number, i + 1)

\* ChannelAnalysis.status(step_number), treat_multiples left at 'all': the
\* string returned, or the exception raised; building the message of the
\* RuntimeError reads labeled_results[-1]
status(self, step_number) ==
  LET treat_multiples == IF self.treat_multiples = "all" THEN "multiple"
                         ELSE self.treat_multiples
      labeled_results == labels_by_step_multiple(expand_results(self.results))
      i == FirstHolding(labeled_results, step_number, 1)
  IN  IF i # 0 THEN [raised |-> "", value |-> label_to_string(labeled_results[i].label)]
      ELSE IF labeled_results = <<>> THEN [raised |-> "IndexError", value |-> ""]
      ELSE [raised |-> "RuntimeError", value |-> ""]

InitChannels ==
  /\ globalstate = {}
  /\ mover = PathMover__init__(RepAll, EnsNone)
  /\ pc = "idle"
  /\ call = NoCall
  /\ subglobal = {}
  /\ mysamples = <<>>
  /\ invoked = <<>>
  /\ analysis \in {ChannelAnalysis__init__(steps) : steps \in StepSequences}

\* a call analysis.status(step_number)
Status ==
  /\ pc = "idle"
  /\ \E step_number \in 0..(MaxCycle + 2) :
       call' = [op |-> "status", step_number |-> step_number,
                out |-> status(analysis, step_number)]
  /\ pc' = "returned"
  /\ UNCHANGED <<globalstate, mover, subglobal, mysamples, invoked, analysis>>

NextChannels == Status

SpecChannels == InitChannels /\ [][NextChannels]_vars

\* what status is to return for a trajectory that the given channels match
ExpectedStatus(matches) ==
  CASE matches = {} -> "None"
    [] matches = {"a"} -> "a"
    [] matches = {"b"} -> "b"
    [] matches = {"a", "b"} -> "a,b"

\* C28: for steps with strictly increasing cycle numbers and the default
\* treat_multiples, status(n) for the cycle number n of an analysed step is
\* the comma-joined sorted names of the channels that match that step's
\* trajectory, "None" when none does (never None next to a name), and status
\* raises RuntimeError for a step number outside the analysed range.
C28_StatusIsChannelsOfStep ==
  call.op = "status" =>
    LET steps == analysis.steps
        n == call.step_number
        at == {i \in DOMAIN steps : steps[i].mccycle = n}
    IN  /\ \A i \in at :
             /\ call.out.raised = ""
             /\ call.out.value = ExpectedStatus(steps[i].trajectory.matches)
        /\ (steps = <<>> \/ n < steps[1].mccycle \/ n > steps[Len(steps)].mccycle)
             => call.out.raised = "RuntimeError"

====
